---- MODULE Spec2Model ----
(***************************************************************************)
(* Model of src/stock_app.py: the data merger get_data, the backtest       *)
(* engine run_backtest and the metric computation of the main program.     *)
(*                                                                         *)
(* Numbers are exact rationals [nan, n, d] (n/d in lowest terms, d > 0);   *)
(* nan = TRUE is pandas' NaN.  A table is a sequence of rows, row t of the *)
(* source (0-based) is element t+1 here.  Only the columns the code reads  *)
(* after the merge are kept: the date index, Close and the flow columns.   *)
(***************************************************************************)
EXTENDS Integers, Sequences, FiniteSets

VARIABLES pc, df_price, df_chip, df, ret, err, ma_window, res, metrics

vars == <<pc, df_price, df_chip, df, ret, err, ma_window, res, metrics>>

\* ------------------------------------------------------------- bounds
MaxDay == 3          \* calendar days 1..MaxDay of the lookback window
MaxFlowRecs == 2     \* records in one response of the flow source
MaxRows == 3         \* rows of a merged table handed to run_backtest

\* def run_backtest(df, ma_window=20); the main program passes no window
DefaultWindow == 20

Days == 1..MaxDay
Closes == {1, 2, 3}         \* closes of a merged table given to run_backtest
NetFlows == {-1, 0, 1}      \* Foreign_Investor values of such a table
FlowNames == <<"Foreign_Investor", "Investment_Trust">>
FlowVolumes == << <<2, 1>>, <<0, 1>> >>   \* (buy, sell) of one flow record
Zones == {"naive", "aware"} \* a date axis without / with time-zone information
Windows == {2, 3, DefaultWindow}

\* ---------------------------------------------------------- rationals
RECURSIVE GCD(_, _)
GCD(a, b) == IF b = 0 THEN a ELSE GCD(b, a % b)

Abs(a) == IF a < 0 THEN -a ELSE a

NaN == [nan |-> TRUE, n |-> 0, d |-> 1]

Rat(a, b) ==
    LET s == IF b < 0 THEN -1 ELSE 1
        g == GCD(Abs(a), Abs(b))
    IN [nan |-> FALSE, n |-> (s * a) \div g, d |-> (s * b) \div g]

Int2Rat(a) == Rat(a, 1)

RAdd(x, y) == IF x.nan \/ y.nan THEN NaN ELSE Rat(x.n * y.d + y.n * x.d, x.d * y.d)
RSub(x, y) == IF x.nan \/ y.nan THEN NaN ELSE Rat(x.n * y.d - y.n * x.d, x.d * y.d)
RMul(x, y) == IF x.nan \/ y.nan THEN NaN ELSE Rat(x.n * y.n, x.d * y.d)
\* a comparison with NaN is False
RGt(x, y) == ~x.nan /\ ~y.nan /\ x.n * y.d > y.n * x.d

\* ------------------------------------------------- provider responses
RECURSIVE SortedSeq(_)
SortedSeq(S) ==
    IF S = {} THEN << >>
    ELSE LET m == CHOOSE x \in S : \A y \in S : x <= y
         IN <<m>> \o SortedSeq(S \ {m})

\* The close the market set on day d: the price source reports it, it does not
\* choose it.
Quote(d) == IF d % 2 = 1 THEN 2 ELSE 1

\* yf.download: one record per trading date of S, ascending, the whole index in
\* one time-zone convention; possibly empty.
PriceResponse(S, z) ==
    LET ds == SortedSeq(S)
    IN [i \in 1..Len(ds) |->
          [date |-> [day |-> ds[i], tz |-> z], Close |-> Quote(ds[i])]]

\* The k-th possible flow record (date, name, buy, sell).
NumFlowRecords == MaxDay * Len(FlowNames) * Len(FlowVolumes)

FlowRecord(k, z) ==
    LET j == k - 1
        per == Len(FlowNames) * Len(FlowVolumes)
        v == FlowVolumes[(j % Len(FlowVolumes)) + 1]
    IN [date |-> [day |-> (j \div per) + 1, tz |-> z],
        name |-> FlowNames[((j \div Len(FlowVolumes)) % Len(FlowNames)) + 1],
        buy |-> v[1], sell |-> v[2]]

\* taiwan_stock_institutional_investors: zero or more records, several of them
\* possibly for the same (date, name).  pivot_table does not depend on the order
\* of the records, so each multiset of records is enumerated once.
FlowKeys(n) ==
    { f \in [1..n -> 1..NumFlowRecords] : \A i \in 1..n : i < n => f[i] <= f[i + 1] }

FlowResponse(ks, z) == [i \in 1..Len(ks) |-> FlowRecord(ks[i], z)]

\* ------------------------------------------------------------ get_data
NA == [na |-> TRUE, v |-> 0]
Cell(x) == [na |-> FALSE, v |-> x]

\* df_chip['net'] = df_chip['buy'] - df_chip['sell']
Net(r) == r.buy - r.sell

ChipDays(chip) == {chip[i].date.day : i \in 1..Len(chip)}
ChipNames(chip) == {chip[i].name : i \in 1..Len(chip)}
ChipZone(chip) == chip[1].date.tz

RECURSIVE SumNet(_, _, _, _)
SumNet(chip, d, c, i) ==
    IF i = 0 THEN 0
    ELSE SumNet(chip, d, c, i - 1)
         + (IF chip[i].date.day = d /\ chip[i].name = c THEN Net(chip[i]) ELSE 0)

\* pivot_table(index='date', columns='name', values='net', aggfunc='sum'):
\* a (date, name) pair without a record is NA.
PivotTable(chip) ==
    [d \in ChipDays(chip) |->
        [c \in ChipNames(chip) |->
            IF \E i \in 1..Len(chip) : chip[i].date.day = d /\ chip[i].name = c
            THEN Cell(SumNet(chip, d, c, Len(chip)))
            ELSE NA]]

\* .fillna(0)
Fillna0(x) == IF x.na THEN 0 ELSE x.v

\* df_price.index.tz_localize(None): the wall-clock date is kept, the zone dropped
TzLocalizeNone(price) ==
    [i \in 1..Len(price) |-> [price[i] EXCEPT !.date.tz = "naive"]]

\* Rows an inner join would keep (used only by a mutant of LeftJoin).
RECURSIVE KeepDays(_, _)
KeepDays(price, ds) ==
    IF price = << >> THEN << >>
    ELSE (IF price[1].date.day \in ds THEN <<price[1]>> ELSE << >>)
         \o KeepDays(Tail(price), ds)

InnerJoin(price, pivot, names) ==
    LET kept == KeepDays(price, DOMAIN pivot)
    IN [i \in 1..Len(kept) |->
          [date |-> kept[i].date, Close |-> kept[i].Close,
           flow |-> [c \in names |-> Cell(pivot[kept[i].date.day][c])]]]

\* df_price.join(df_chip_pivot, how='left'): one row per row of the left table,
\* NA where the right table has no row of that date.
LeftJoin(price, pivot, names) ==
    [i \in 1..Len(price) |->
        [date |-> price[i].date, Close |-> price[i].Close,
         flow |-> [c \in names |->
                     IF price[i].date.day \in DOMAIN pivot
                     THEN Cell(pivot[price[i].date.day][c])
                     ELSE NA]]]

\* ---------------------------------------------------------- run_backtest
RECURSIVE SumClose(_, _, _)
SumClose(data, lo, hi) ==
    IF hi < lo THEN 0 ELSE data[hi].Close + SumClose(data, lo, hi - 1)

\* data['Close'].rolling(window=ma_window).mean(): NaN on the first window-1 rows
RollingMean(data, w, t) ==
    IF t >= w THEN Rat(SumClose(data, t - w + 1, t), w) ELSE NaN

\* data['Close'].pct_change(): NaN on the first row
PctChange(data, t) ==
    IF t = 1 THEN NaN
    ELSE RSub(Rat(data[t].Close, data[t - 1].Close), Int2Rat(1))

\* A non-strict comparison of Close with MA (a mutant of SignalAt).
SignalAtNonStrict(data, w, t) ==
    LET ma == RollingMean(data, w, t)
        condition_tech == ~ma.nan /\ ~RGt(ma, Int2Rat(data[t].Close))
        condition_chip == data[t].flow["Foreign_Investor"] > 0
    IN IF condition_tech /\ condition_chip THEN 1 ELSE 0

\* (condition_tech & condition_chip).astype(int)
SignalAt(data, w, t) ==
    LET condition_tech == RGt(Int2Rat(data[t].Close), RollingMean(data, w, t))
        condition_chip == data[t].flow["Foreign_Investor"] > 0
    IN IF condition_tech /\ condition_chip THEN 1 ELSE 0

\* data['Signal'].shift(1): NaN on the first row
ShiftedSignal(data, w, t) ==
    IF t = 1 THEN NaN ELSE Int2Rat(SignalAt(data, w, t - 1))

\* The same day's signal gating the day's return (a mutant of StrategyReturn).
StrategyReturnSameDay(data, w, t) ==
    IF t = 1 THEN NaN ELSE RMul(Int2Rat(SignalAt(data, w, t)), PctChange(data, t))

\* data['Signal'].shift(1) * data['Daily_Return']
StrategyReturn(data, w, t) ==
    RMul(ShiftedSignal(data, w, t), PctChange(data, t))

\* Series.cumprod(): NaN entries are skipped by the running product and stay
\* NaN in the result.
RECURSIVE RunningProduct(_, _)
RunningProduct(s, t) ==
    IF t = 0 THEN Int2Rat(1)
    ELSE IF s[t].nan THEN RunningProduct(s, t - 1)
    ELSE RMul(RunningProduct(s, t - 1), s[t])

CumProd(s) ==
    [t \in 1..Len(s) |-> IF s[t].nan THEN NaN ELSE RunningProduct(s, t)]

\* (1 + data['Daily_Return']).cumprod()
CumMarket(data) ==
    LET s == [t \in 1..Len(data) |-> RAdd(Int2Rat(1), PctChange(data, t))]
    IN CumProd(SubSeq(s, 1, Len(s)))

\* (1 + data['Strategy_Return']).cumprod()
CumStrategy(data, w) ==
    LET s == [t \in 1..Len(data) |-> RAdd(Int2Rat(1), StrategyReturn(data, w, t))]
    IN CumProd(SubSeq(s, 1, Len(s)))

run_backtest(data, w) ==
    LET cum_market == CumMarket(data)
        cum_strategy == CumStrategy(data, w)
    IN [t \in 1..Len(data) |->
          [Close |-> data[t].Close,
           Foreign_Investor |-> data[t].flow["Foreign_Investor"],
           MA |-> RollingMean(data, w, t),
           Daily_Return |-> PctChange(data, t),
           Signal |-> SignalAt(data, w, t),
           Strategy_Return |-> StrategyReturn(data, w, t),
           Cum_Market |-> cum_market[t],
           Cum_Strategy |-> cum_strategy[t]]]

\* ------------------------------------------------- main program metrics
RECURSIVE SumSignal(_, _)
SumSignal(r, t) == IF t = 0 THEN 0 ELSE r[t].Signal + SumSignal(r, t - 1)

\* (res[col].iloc[-1] - 1) * 100
TotalPct(last) == RMul(RSub(last, Int2Rat(1)), Int2Rat(100))

\* res['Signal'].sum()
TradeDays(r) == SumSignal(r, Len(r))

\* res[(res['Signal'].shift(1) == 1) & (res['Strategy_Return'] > 0)].shape[0]
WinDays(r) ==
    Cardinality({t \in 2..Len(r) :
                    r[t - 1].Signal = 1 /\ RGt(r[t].Strategy_Return, Int2Rat(0))})

\* The win count divided by the days with a previous-day signal (a mutant of
\* WinRate).
WinRateOverHeldDays(r) ==
    LET held == Cardinality({t \in 2..Len(r) : r[t - 1].Signal = 1})
    IN IF held > 0 THEN Rat(WinDays(r) * 100, held) ELSE Int2Rat(0)

WinRate(r) ==
    IF TradeDays(r) > 0 THEN Rat(WinDays(r) * 100, TradeDays(r)) ELSE Int2Rat(0)

NoMetrics ==
    [total_return |-> NaN, market_return |-> NaN, excess |-> NaN,
     trade_days |-> 0, win_rate |-> NaN]

Metrics(r) ==
    LET total_return == TotalPct(r[Len(r)].Cum_Strategy)
        market_return == TotalPct(r[Len(r)].Cum_Market)
    IN [total_return |-> total_return, market_return |-> market_return,
        excess |-> RSub(total_return, market_return),
        trade_days |-> TradeDays(r), win_rate |-> WinRate(r)]

\* ------------------------------------------------------------- actions
Init ==
    /\ pc = "start"
    /\ df_price = << >>
    /\ df_chip = << >>
    /\ df = << >>
    /\ ret = "pending"
    /\ err = "none"
    /\ ma_window = DefaultWindow
    /\ res = << >>
    /\ metrics = NoMetrics

\* get_data, lines 22-32: the price download succeeds; an empty series ends
\* get_data with None.
DownloadPrice ==
    /\ pc = "start"
    /\ \E S \in SUBSET Days :
         \E z \in Zones :
            LET p == PriceResponse(S, z)
            IN /\ df_price' = p
               /\ IF p = << >>
                  THEN pc' = "returned" /\ ret' = "None"
                  ELSE pc' = "price_ok" /\ ret' = ret
    /\ UNCHANGED <<df_chip, df, err, ma_window, res, metrics>>

\* yf.download raises: nothing in get_data or the main program catches it.
DownloadPriceFails ==
    /\ pc = "start"
    /\ pc' = "raised"
    /\ err' = "price_fetch"
    /\ UNCHANGED <<df_price, df_chip, df, ret, ma_window, res, metrics>>

\* get_data, lines 35-40: the flow source answers.
FetchChip ==
    /\ pc = "price_ok"
    /\ \E n \in 0..MaxFlowRecs :
         \E ks \in FlowKeys(n), z \in Zones : df_chip' = FlowResponse(ks, z)
    /\ pc' = "chip_ok"
    /\ UNCHANGED <<df_price, df, ret, err, ma_window, res, metrics>>

\* What a handler that swallowed the failure would do (a mutant of FetchChipFails).
FetchChipFailsSwallowed ==
    /\ pc = "price_ok"
    /\ pc' = "returned"
    /\ ret' = "None"
    /\ err' = "chip_fetch"
    /\ UNCHANGED <<df_price, df_chip, df, ma_window, res, metrics>>

\* The flow source raises: the exception leaves get_data.
FetchChipFails ==
    /\ pc = "price_ok"
    /\ pc' = "raised"
    /\ err' = "chip_fetch"
    /\ UNCHANGED <<df_price, df_chip, df, ret, ma_window, res, metrics>>

\* get_data, lines 43-58.
MergeData ==
    /\ pc = "chip_ok"
    /\ IF df_chip # << >>
       THEN LET pivot == [d \in ChipDays(df_chip) |->
                            [c \in ChipNames(df_chip) |->
                                Fillna0(PivotTable(df_chip)[d][c])]]
                price == TzLocalizeNone(df_price)
                joined == LeftJoin(price, pivot, ChipNames(df_chip))
            IN /\ df_price' = price
               /\ IF ChipZone(df_chip) # "naive"
                  \* join of a tz-naive with a tz-aware DatetimeIndex: TypeError
                  THEN pc' = "raised" /\ err' = "TypeError"
                       /\ UNCHANGED <<df, ret>>
                  ELSE /\ df' = [i \in 1..Len(joined) |->
                                  [joined[i] EXCEPT
                                     !.flow = [c \in DOMAIN joined[i].flow |->
                                                 Fillna0(joined[i].flow[c])]]]
                       /\ pc' = "returned" /\ ret' = "table"
                       /\ err' = err
       ELSE /\ df' = [i \in 1..Len(df_price) |->
                       [date |-> df_price[i].date, Close |-> df_price[i].Close,
                        flow |-> [c \in {"Foreign_Investor"} |-> 0]]]
            /\ pc' = "returned" /\ ret' = "table"
            /\ UNCHANGED <<df_price, err>>
    /\ UNCHANGED <<df_chip, ma_window, res, metrics>>

\* main program, lines 92-93: st.error("no data found")
MainNoData ==
    /\ pc = "returned"
    /\ ret = "None" \/ df = << >>
    /\ pc' = "no_data"
    /\ UNCHANGED <<df_price, df_chip, df, ret, err, ma_window, res, metrics>>

\* main program, line 133: res = run_backtest(df); line 72 raises KeyError
\* when the table has no Foreign_Investor column.
RunBacktest ==
    /\ pc = "returned"
    /\ ret = "table" /\ df # << >>
    /\ IF "Foreign_Investor" \in DOMAIN df[1].flow
       THEN /\ res' = run_backtest(df, ma_window)
            /\ pc' = "backtested"
            /\ err' = err
       ELSE /\ pc' = "raised"
            /\ err' = "KeyError"
            /\ res' = res
    /\ UNCHANGED <<df_price, df_chip, df, ret, ma_window, metrics>>

\* main program, lines 136-153.
ComputeMetrics ==
    /\ pc = "backtested"
    /\ metrics' = Metrics(res)
    /\ pc' = "displayed"
    /\ UNCHANGED <<df_price, df_chip, df, ret, err, ma_window, res>>

Next ==
    \/ DownloadPrice
    \/ DownloadPriceFails
    \/ FetchChip
    \/ FetchChipFails
    \/ MergeData
    \/ MainNoData
    \/ RunBacktest
    \/ ComputeMetrics

Spec == Init /\ [][Next]_vars

\* run_backtest and the metrics on any merged table and window: the table and
\* ma_window are drawn at the start, as the arguments of the call.
MergedTable(cs, fs) ==
    [i \in 1..Len(cs) |->
        [date |-> [day |-> i, tz |-> "naive"], Close |-> cs[i],
         flow |-> [c \in {"Foreign_Investor"} |-> fs[i]]]]

InitBT ==
    /\ pc = "returned"
    /\ \E n \in 1..MaxRows :
         \E cs \in [1..n -> Closes], fs \in [1..n -> NetFlows] :
            df = MergedTable(cs, fs)
    /\ df_price = [i \in 1..Len(df) |-> [date |-> df[i].date, Close |-> df[i].Close]]
    /\ df_chip = << >>
    /\ ret = "table"
    /\ err = "none"
    /\ ma_window \in Windows
    /\ res = << >>
    /\ metrics = NoMetrics

NextBT == RunBacktest \/ ComputeMetrics

SpecBT == InitBT /\ [][NextBT]_vars

\* ================================================================ claims
Rows == 1..Len(res)
One == Int2Rat(1)
Zero == Int2Rat(0)

\* The merged table with the net flow of row k replaced by v.
AlterFlow(data, k, v) ==
    [data EXCEPT ![k].flow["Foreign_Investor"] = v]

\* C1: no lookahead.  On every row after the first, Strategy_Return is the
\* previous row's Signal times the row's Daily_Return; and a table that differs
\* only in the net flow of row k gives the same Strategy_Return and Cum_Strategy
\* on every row up to and including k.
C1_NoLookahead ==
    pc = "backtested" =>
        /\ \A t \in Rows \ {1} :
              res[t].Strategy_Return
                = RMul(Int2Rat(res[t - 1].Signal), res[t].Daily_Return)
        /\ \A k \in Rows : \A v \in NetFlows :
              LET alt == AlterFlow(df, k, v)
                  alt_cum == CumStrategy(alt, ma_window)
              IN \A t \in 1..k :
                    /\ StrategyReturn(alt, ma_window, t) = res[t].Strategy_Return
                    /\ alt_cum[t] = res[t].Cum_Strategy

\* An altered net flow on row k flips Signal[k] and shows on row k+1.
C1_Witness ==
    /\ pc = "backtested"
    /\ \E k \in Rows : \E v \in NetFlows :
          LET alt == AlterFlow(df, k, v)
          IN /\ k < Len(res)
             /\ SignalAt(alt, ma_window, k) # res[k].Signal
             /\ StrategyReturn(alt, ma_window, k + 1) # res[k + 1].Strategy_Return
             /\ CumStrategy(alt, ma_window)[k + 1] # res[k + 1].Cum_Strategy

\* C2: date alignment.  A table returned by get_data has exactly the dates of
\* the price series, in the same order, one row per price date.
C2_DateAlignment ==
    ret = "table" =>
        /\ Len(df) = Len(df_price)
        /\ \A i \in 1..Len(df) : df[i].date.day = df_price[i].date.day
        /\ \A i \in 1..Len(df) : \A j \in 1..Len(df) :
              i < j => df[i].date.day < df[j].date.day

\* A merge in which the flow response has a date the price series lacks and
\* the price series has a date the flow response lacks.
C2_Witness ==
    /\ ret = "table"
    /\ df_chip # << >>
    /\ \E i \in 1..Len(df_chip) :
          \A j \in 1..Len(df_price) : df_chip[i].date.day # df_price[j].date.day
    /\ \E j \in 1..Len(df_price) : df_price[j].date.day \notin ChipDays(df_chip)
    /\ Len(df) >= 2

\* C3: every table get_data returns has the Foreign_Investor column, so
\* run_backtest never fails for want of it.
C3_NetFlowPresent ==
    /\ ret = "table" =>
          \A i \in 1..Len(df) : "Foreign_Investor" \in DOMAIN df[i].flow
    /\ err # "KeyError"

\* C4: once the price series is non-empty and the flow source has answered,
\* get_data returns a table whose value for price date d and category c is the
\* sum of buy - sell over the flow records of that calendar date and category
\* (0 without any), whichever time-zone convention the two sources use.
C4_MergedValue ==
    (pc \notin {"start", "price_ok", "chip_ok"} /\ df_price # << >>
        /\ err \notin {"price_fetch", "chip_fetch"}) =>
        /\ ret = "table"
        /\ \A i \in 1..Len(df) : \A c \in ChipNames(df_chip) :
              /\ c \in DOMAIN df[i].flow
              /\ df[i].flow[c] = SumNet(df_chip, df[i].date.day, c, Len(df_chip))

\* C5: get_data returns None exactly when the price download succeeded with an
\* empty series; a failure of either source leaves get_data as an exception and
\* is never turned into None or into a table, and the "no data" message is shown
\* for None only.
C5_NoDataVsFailure ==
    /\ ret = "None" <=> (pc # "start" /\ err = "none" /\ df_price = << >>)
    /\ err \in {"price_fetch", "chip_fetch"} =>
          (pc = "raised" /\ ret = "pending" /\ df = << >>)
    /\ pc = "no_data" => (ret = "None" /\ err = "none")

\* The flow source failed after a successful, non-empty price download.
C5_Witness ==
    pc = "raised" /\ err = "chip_fetch" /\ df_price # << >>

\* C6: Signal[t] = 1 exactly when the window is full at t, Close[t] is strictly
\* above the mean of the last ma_window closes and the net flow is strictly
\* positive; otherwise it is 0.
C6_SignalDefinition ==
    pc = "backtested" =>
        \A t \in Rows :
            res[t].Signal =
                IF /\ t >= ma_window
                   /\ df[t].Close * ma_window > SumClose(df, t - ma_window + 1, t)
                   /\ df[t].flow["Foreign_Investor"] > 0
                THEN 1 ELSE 0

\* A table with a held row and a row where Close equals MA exactly while the
\* net flow is positive.
C6_Witness ==
    /\ pc = "backtested"
    /\ \E t \in Rows : res[t].Signal = 1
    /\ \E t \in Rows :
          /\ res[t].MA = Int2Rat(res[t].Close)
          /\ res[t].Foreign_Investor > 0
          /\ res[t].Signal = 0

\* C7: on every row, the first included, Cum_Market is defined and equals
\* Close[t] / Close[0] (so 1 on the first row).
C7_CumMarket ==
    pc = "backtested" =>
        \A t \in Rows :
            /\ ~res[t].Cum_Market.nan
            /\ res[t].Cum_Market = Rat(df[t].Close, df[1].Close)

HeldRows == {t \in Rows \ {1} : res[t - 1].Signal = 1}
WinRows == {t \in HeldRows : RGt(res[t].Strategy_Return, Zero)}
SignalRows == {t \in Rows : res[t].Signal = 1}

\* C8 as claimed: the win rate is 100 times the share of winning rows among
\* the rows whose previous-day Signal was 1, and 0 when there is no trade-day.
C8_WinRateClaimed ==
    pc = "displayed" =>
        /\ HeldRows # {} =>
              metrics.win_rate = Rat(100 * Cardinality(WinRows), Cardinality(HeldRows))
        /\ SignalRows = {} => metrics.win_rate = Zero

\* C8 as amended: the win rate is 100 times the number of winning rows (previous-
\* day Signal 1 and positive Strategy_Return) divided by trade-days, the count of
\* rows with same-day Signal 1; it is 0 when trade-days is 0.
C8_WinRate ==
    pc = "displayed" =>
        /\ metrics.trade_days = Cardinality(SignalRows)
        /\ ~metrics.win_rate.nan
        /\ metrics.win_rate =
              IF SignalRows # {}
              THEN Rat(100 * Cardinality(WinRows), Cardinality(SignalRows))
              ELSE Zero

\* A displayed win rate with a winning row and a signal on the last row, which
\* counts as a trade-day without a following row.
C8_Witness ==
    /\ pc = "displayed"
    /\ WinRows # {}
    /\ res[Len(res)].Signal = 1
    /\ Cardinality(SignalRows) # Cardinality(HeldRows)

\* C9: for every non-empty table the three displayed percentages are defined
\* numbers, (last equity - 1) * 100 and their difference.
C9_NoNaNMetrics ==
    pc = "displayed" =>
        /\ ~metrics.total_return.nan
        /\ ~metrics.market_return.nan
        /\ ~metrics.excess.nan
        /\ metrics.total_return = TotalPct(res[Len(res)].Cum_Strategy)
        /\ metrics.market_return = TotalPct(res[Len(res)].Cum_Market)

\* C10: with a net flow that is never positive, or fewer rows than the window,
\* Signal is 0 and Cum_Strategy is 1 on every row, the first included.
C10_FlatStrategy ==
    (pc = "backtested"
        /\ \/ \A t \in Rows : res[t].Foreign_Investor <= 0
           \/ Len(res) < ma_window) =>
        \A t \in Rows :
            /\ res[t].Signal = 0
            /\ res[t].Strategy_Return.nan \/ res[t].Strategy_Return = Zero
            /\ res[t].Cum_Strategy = One

====
